---------------------------- MODULE Spec2Model ----------------------------
(***************************************************************************)
(* Model of src/Pricing_calculator.py, the Streamlit script of the         *)
(* laboratory pricing calculator.  One run of the script is one behaviour: *)
(* the widgets and the sheet row are read (Init), then the script's blocks *)
(* execute top to bottom, one action per block, until the run ends or an   *)
(* exception stops it.                                                     *)
(*                                                                         *)
(* The script computes with floats (IEEE-754 doubles); so does the model:  *)
(* every figure is rounded as the script's arithmetic rounds it.           *)
(***************************************************************************)
EXTENDS Integers, Sequences, FiniteSets, TLC

(***************************************************************************)
(* IEEE-754 double arithmetic, as Python's float computes.                 *)
(*                                                                         *)
(* A natural number of any size is a sequence of limbs, least significant  *)
(* first, without leading zero limbs: <<>> is 0.  A float is               *)
(* <<sign, mantissa, exponent>>: sign * mantissa * 2^exponent, the         *)
(* mantissa a natural number of exactly MantissaBits bits; zero is         *)
(* <<0, <<>>, 0>> (the sign of a zero is not kept); NaN stands for a       *)
(* missing value.  Every operation rounds its exact result to the nearest  *)
(* float, a tie to the even mantissa.  Infinities and subnormal numbers    *)
(* are out of the range of the script's figures.                           *)
(***************************************************************************)
LimbBits == 14
LimbBase == 2^LimbBits
MantissaBits == 53

Pow2(k) == 2^k

RECURSIVE BStrip(_)
BStrip(a) ==
    IF a = <<>> THEN a
    ELSE IF a[Len(a)] = 0 THEN BStrip(SubSeq(a, 1, Len(a) - 1))
    ELSE a

RECURSIVE BFromInt(_)
BFromInt(n) ==
    IF n = 0 THEN <<>> ELSE <<n % LimbBase>> \o BFromInt(n \div LimbBase)

RECURSIVE BToInt(_)
BToInt(a) ==
    IF a = <<>> THEN 0 ELSE Head(a) + LimbBase * BToInt(Tail(a))

RECURSIVE BAddC(_, _, _)
BAddC(a, b, c) ==
    IF a = <<>> /\ b = <<>>
    THEN IF c = 0 THEN <<>> ELSE <<c>>
    ELSE LET x == (IF a = <<>> THEN 0 ELSE Head(a))
                  + (IF b = <<>> THEN 0 ELSE Head(b)) + c
         IN  <<x % LimbBase>>
             \o BAddC(IF a = <<>> THEN a ELSE Tail(a),
                      IF b = <<>> THEN b ELSE Tail(b),
                      x \div LimbBase)

BAdd(a, b) == BAddC(a, b, 0)

\* a - b - c for a >= b + c, with leading zero limbs
RECURSIVE BSubC(_, _, _)
BSubC(a, b, c) ==
    IF a = <<>> THEN <<>>
    ELSE LET x == Head(a) - (IF b = <<>> THEN 0 ELSE Head(b)) - c
         IN  <<x % LimbBase>>
             \o BSubC(Tail(a), IF b = <<>> THEN b ELSE Tail(b),
                      IF x < 0 THEN 1 ELSE 0)

BSub(a, b) == BStrip(BSubC(a, b, 0))

\* -1, 0 or 1 as a < b, a = b or a > b
RECURSIVE BCmp(_, _)
BCmp(a, b) ==
    IF Len(a) # Len(b) THEN (IF Len(a) < Len(b) THEN -1 ELSE 1)
    ELSE IF a = <<>> THEN 0
    ELSE LET x == a[Len(a)]
             y == b[Len(b)]
         IN  IF x # y THEN (IF x < y THEN -1 ELSE 1)
             ELSE BCmp(SubSeq(a, 1, Len(a) - 1), SubSeq(b, 1, Len(b) - 1))

\* a * k + c for 0 <= k, c < LimbBase
RECURSIVE BMulSmallC(_, _, _)
BMulSmallC(a, k, c) ==
    IF a = <<>> THEN (IF c = 0 THEN <<>> ELSE <<c>>)
    ELSE LET x == Head(a) * k + c
         IN  <<x % LimbBase>> \o BMulSmallC(Tail(a), k, x \div LimbBase)

BMulSmall(a, k) == IF k = 0 THEN <<>> ELSE BMulSmallC(a, k, 0)

RECURSIVE BMulRec(_, _)
BMulRec(a, b) ==
    IF b = <<>> THEN <<>>
    ELSE BAdd(BMulSmall(a, Head(b)),
              LET r == BMulRec(a, Tail(b)) IN IF r = <<>> THEN r ELSE <<0>> \o r)

BMul(a, b) == BMulRec(a, b)

\* floor(a / k) for 0 < k <= LimbBase, from the most significant limb down;
\* r is the remainder carried in
RECURSIVE BDivSmallR(_, _, _)
BDivSmallR(a, k, r) ==
    IF a = <<>> THEN <<>>
    ELSE LET x == r * LimbBase + a[Len(a)]
         IN  BDivSmallR(SubSeq(a, 1, Len(a) - 1), k, x % k) \o <<x \div k>>

BDivSmall(a, k) == BStrip(BDivSmallR(a, k, 0))

RECURSIVE BitLenSmall(_)
BitLenSmall(x) == IF x = 0 THEN 0 ELSE 1 + BitLenSmall(x \div 2)

BBitLen(a) ==
    IF a = <<>> THEN 0 ELSE LimbBits * (Len(a) - 1) + BitLenSmall(a[Len(a)])

BIsOdd(a) == a # <<>> /\ Head(a) % 2 = 1

\* a * 2^k
BShl(a, k) ==
    IF a = <<>> THEN a
    ELSE [i \in 1..(k \div LimbBits) |-> 0] \o BMulSmall(a, Pow2(k % LimbBits))

\* floor(a / 2^k)
BShr(a, k) ==
    LET n == k \div LimbBits
    IN  IF n >= Len(a) THEN <<>>
        ELSE BDivSmall(SubSeq(a, n + 1, Len(a)), Pow2(k % LimbBits))

\* q, or q + 1: q is floor(v) of a value v whose fraction compares as c (-1,
\* 0, 1) with one half, the fraction having bits beyond those compared
\* exactly when sticky; the nearest integer, a tie to the even one
BRoundUp(q, c, sticky) ==
    IF c > 0 \/ (c = 0 /\ (sticky \/ BIsOdd(q))) THEN BAdd(q, <<1>>) ELSE q

BRoundQuotient(m, k, sticky, q) ==
    BRoundUp(q, BCmp(BSub(m, BShl(q, k)), BShl(<<1>>, k - 1)), sticky)

\* the integer nearest to (m + d) / 2^k, a tie to the even one; d is a
\* fraction in [0, 1), not zero exactly when sticky
BRoundShr(m, k, sticky) ==
    IF k = 0 THEN m ELSE BRoundQuotient(m, k, sticky, BShr(m, k))

NaN == <<2, <<>>, 0>>
FZero == <<0, <<>>, 0>>
IsNaN(x) == x[1] = 2

\* s * q * 2^e for q of MantissaBits bits, or one more after a carry
FNormal(s, q, e) ==
    IF BBitLen(q) > MantissaBits THEN <<s, BShr(q, 1), e + 1>> ELSE <<s, q, e>>

FPackLen(s, m, e, sticky, len) ==
    IF len <= MantissaBits
    THEN <<s, BShl(m, MantissaBits - len), e - (MantissaBits - len)>>
    ELSE FNormal(s, BRoundShr(m, len - MantissaBits, sticky),
                 e + (len - MantissaBits))

\* the float nearest to s * (m + d) * 2^e, d as in BRoundShr
FPack(s, m, e, sticky) ==
    IF m = <<>> THEN FZero ELSE FPackLen(s, m, e, sticky, BBitLen(m))

\* s * m as a float, for 0 < m < 2^MantissaBits
FExact(s, m) ==
    <<s, BShl(m, MantissaBits - BBitLen(m)), BBitLen(m) - MantissaBits>>

\* float(i) of an integer
F(i) ==
    IF i = 0 THEN FZero
    ELSE FExact(IF i < 0 THEN -1 ELSE 1, BFromInt(IF i < 0 THEN -i ELSE i))

FNeg(x) == IF IsNaN(x) THEN x ELSE <<-x[1], x[2], x[3]>>

\* sx * mx * 2^e + sy * my * 2^e
FAddAligned(sx, mx, sy, my, e) ==
    FPack(IF sx = sy \/ BCmp(mx, my) > 0 THEN sx ELSE sy,
          IF sx = sy THEN BAdd(mx, my)
          ELSE IF BCmp(mx, my) > 0 THEN BSub(mx, my)
          ELSE BSub(my, mx),
          e, FALSE)

FAddAt(x, y, e) ==
    FAddAligned(x[1], BShl(x[2], x[3] - e), y[1], BShl(y[2], y[3] - e), e)

\* x + y
FAdd(x, y) ==
    IF IsNaN(x) \/ IsNaN(y) THEN NaN
    ELSE IF x[1] = 0 THEN y
    ELSE IF y[1] = 0 THEN x
    ELSE FAddAt(x, y, IF x[3] < y[3] THEN x[3] ELSE y[3])

\* x - y
FSub(x, y) == FAdd(x, FNeg(y))

\* x * y
FMul(x, y) ==
    IF IsNaN(x) \/ IsNaN(y) THEN NaN
    ELSE IF x[1] = 0 \/ y[1] = 0 THEN FZero
    ELSE FPack(x[1] * y[1], BMul(x[2], y[2]), x[3] + y[3], FALSE)

\* the largest k in lo..hi with d * k <= rr
DivDigit(rr, d, lo, hi) ==
    CHOOSE k \in lo..hi :
        /\ BCmp(BMulSmall(d, k), rr) <= 0
        /\ \A j \in (k + 1)..hi : BCmp(BMulSmall(d, j), rr) > 0

\* floor(rr / d) lies between the two estimates from the leading bits rh of
\* rr and dh of d
DivEstimate(rr, d, rh, dh) ==
    DivDigit(rr, d, rh \div (dh + 1), (rh + 1) \div dh)

DivRemainder(rr, d, c) == <<c, BSub(rr, BMulSmall(d, c))>>

DivShifted(rr, d) ==
    DivRemainder(rr, d,
        DivEstimate(rr, d,
                    BToInt(BShr(rr, MantissaBits - LimbBits - 1)),
                    BToInt(BShr(d, MantissaBits - LimbBits - 1))))

\* one step of long division in base LimbBase, for r < d, d of MantissaBits
\* bits: <<floor(r * LimbBase / d), the remainder>>
DivStep(r, d) == DivShifted(IF r = <<>> THEN r ELSE <<0>> \o r, d)

\* n more steps of the long division of r by d, acc the quotient limbs so
\* far: <<quotient limbs, remainder>>
RECURSIVE DivLimbs(_, _, _, _)
DivNext(acc, s, d, n) == DivLimbs(<<s[1]>> \o acc, s[2], d, n - 1)

DivLimbs(acc, r, d, n) ==
    IF n = 0 THEN <<acc, r>> ELSE DivNext(acc, DivStep(r, d), d, n)

DivSteps == 4

FDivPack(s, q0, dl, e) ==
    FPack(s, BStrip(dl[1] \o <<q0>>), e, dl[2] # <<>>)

\* s * (mx / my) * 2^(e + DivSteps * LimbBits); ge: mx >= my
FDivMantissas(s, mx, my, e, ge) ==
    FDivPack(s, IF ge THEN 1 ELSE 0,
             DivLimbs(<<>>, IF ge THEN BSub(mx, my) ELSE mx, my, DivSteps), e)

\* x / y for y # 0
FDiv(x, y) ==
    IF IsNaN(x) \/ IsNaN(y) THEN NaN
    ELSE IF x[1] = 0 THEN FZero
    ELSE FDivMantissas(x[1] * y[1], x[2], y[2],
                       x[3] - y[3] - DivSteps * LimbBits,
                       BCmp(x[2], y[2]) >= 0)

\* x < y, x <= y, x = y as Python compares floats: FALSE when one is NaN
FCmp(x, y) ==
    IF x[1] # y[1] THEN (IF x[1] < y[1] THEN -1 ELSE 1)
    ELSE IF x[1] = 0 THEN 0
    ELSE LET c == IF x[3] # y[3] THEN (IF x[3] < y[3] THEN -1 ELSE 1)
                  ELSE BCmp(x[2], y[2])
         IN  x[1] * c
FLt(x, y) == ~IsNaN(x) /\ ~IsNaN(y) /\ FCmp(x, y) < 0
FLe(x, y) == ~IsNaN(x) /\ ~IsNaN(y) /\ FCmp(x, y) <= 0
FEq(x, y) == ~IsNaN(x) /\ ~IsNaN(y) /\ FCmp(x, y) = 0

\* the integer nearest to m * 2^e, a tie to the even one
BRoundToInt(m, e) ==
    IF e >= 0 THEN BToInt(BShl(m, e))
    ELSE IF -e > BBitLen(m) + 1 THEN 0
    ELSE BToInt(BRoundShr(m, -e, FALSE))

\* Python's round(x) of a float that is not NaN: an int
PyRound(x) == x[1] * BRoundToInt(x[2], x[3])

\* Python's round(x, 1) of a float: the float nearest to the decimal with
\* one digit after the point that is nearest to x
PyRound1(x) ==
    IF IsNaN(x) \/ x[1] = 0 THEN x
    ELSE FDiv(F(x[1] * BRoundToInt(BMulSmall(x[2], 10), x[3])), F(10))

\* round(x, 1) of a numpy.float64: rint(x * 10) / 10
NpRound1(x) ==
    IF IsNaN(x) \/ x[1] = 0 THEN x
    ELSE FDiv(F(PyRound(FMul(x, F(10)))), F(10))

\* int(x) of a float: the fraction cut off
FTrunc(x) ==
    IF x[1] = 0 THEN 0
    ELSE IF x[3] >= 0 THEN x[1] * BToInt(BShl(x[2], x[3]))
    ELSE x[1] * BToInt(BShr(x[2], -x[3]))

(***************************************************************************)
(* Program constants.                                                      *)
(***************************************************************************)
RoundingIncrement == 50
DefaultOpexPct == 25
HealthyGap == 500
Cushion == 5
VolumeStep == 5
MarkupDivisions == 20

(***************************************************************************)
(* Bounds of the model: how many values of each input are explored.        *)
(***************************************************************************)
MaxMarkupUnits == 2
MaxCogsUnits == 1

\* markup slider: 1.0 .. 5.0 in steps of 0.05; explored at 1.0, 1.35, 1.7, ...
MarkupChoices ==
    { FDiv(F(MarkupDivisions + 7 * k), F(MarkupDivisions)) : k \in 0..MaxMarkupUnits }
\* COGS cell of the selected sheet row, as float(...) reads it: any number,
\* a negative one too (the script checks nothing); NaN when empty
CogsChoices ==
    {NaN, F(-75), F(0), F(25)} \cup { F(1500 * k) : k \in 1..MaxCogsUnits }
\* CURRENT PRICE cell of the selected sheet row: any number, a negative one
\* too; NaN when empty
CurrentPriceChoices == {NaN, F(-75), F(0), F(75), F(1025)}
\* "Or Enter Proposed Price" number input: an integer >= 0, 0 when not set
EnteredPriceChoices == {0, 30, 1575}
\* volume slider: 0 .. 500 in steps of 5
VolumeChoices == {0, 4 * VolumeStep}
\* OPEX adjustment slider: -20 .. 50 in steps of 5
OpexAdjustmentChoices == {-20, 0, 10}
\* minimum profit margin slider: 0 .. 50 in steps of 1
TargetMarginChoices == {0, 20, 30}
\* first value of the sheet's "OPEX %" column: <<v>>, or <<>> when the sheet
\* has no such column
OpexColumnChoices == {<<>>, <<17>>}

Undefined == "undefined"

VARIABLES
    pc,               \* the block of the script that runs next, or that failed
    error,            \* the exception that stopped the run, or "none"
    markup, entered_price, volume, opex_adjustment, target_margin,
    current_price, cogs, opex_column, opex_rate,
    proposed_price,
    current_opex, current_profit, current_margin,
    proposed_opex, proposed_profit, proposed_margin,
    total_revenue, total_profit,
    min_price_needed, margin_gap,
    warning, margin_status, recommendation,
    metrics, comparison

inputs == <<markup, entered_price, volume, opex_adjustment, target_margin,
            current_price, cogs, opex_column, opex_rate>>
perTest == <<current_opex, current_profit, current_margin,
             proposed_opex, proposed_profit, proposed_margin,
             total_revenue, total_profit>>
check == <<min_price_needed, margin_gap, warning, margin_status, recommendation>>
vars == <<pc, error, inputs, proposed_price, perTest, check, metrics, comparison>>

(***************************************************************************)
(* The script's formulas.                                                  *)
(***************************************************************************)

\* df["OPEX %"].dropna().iloc[0] / 100, or 0.25
OpexRate(column) ==
    IF column = <<>>
    THEN FDiv(F(DefaultOpexPct), F(100))
    ELSE FDiv(F(column[1]), F(100))

\* round50 with the fraction cut off instead of rounded
round50_Truncate(value) ==
    FTrunc(FDiv(value, F(RoundingIncrement))) * RoundingIncrement

\* int(round(value / 50.0)) * 50, for a value that is not NaN
round50(value) ==
    PyRound(FDiv(value, F(RoundingIncrement))) * RoundingIncrement

\* the value handed to round50 in the price derivation: the entered price
\* when it is > 0, else cost times markup
PriceBeforeRounding(entered, unit_cost, multiplier) ==
    IF entered > 0 THEN F(entered) ELSE FMul(unit_cost, multiplier)

\* the price the script goes on with: the entered price when it is > 0,
\* else cost times markup; either way rounded by round50
DerivePrice(entered, unit_cost, multiplier) ==
    IF entered > 0
    THEN round50(F(entered))
    ELSE round50(FMul(unit_cost, multiplier))

\* opex_rate * current_price
CurrentOpex(rate, price) == FMul(rate, price)

\* ProposedOpex with the OPEX adjustment forgotten
ProposedOpex_NoAdjustment(rate, price, adjustment) == FMul(rate, price)

\* (opex_rate * proposed_price) * (1 + opex_adjustment / 100)
ProposedOpex(rate, price, adjustment) ==
    FMul(FMul(rate, price), FAdd(F(1), FDiv(F(adjustment), F(100))))

\* price - cogs - opex
Profit(price, unit_cost, opex) == FSub(FSub(price, unit_cost), opex)

\* Margin guarded by price # 0 instead of price > 0
Margin_NonZeroGuard(profit, price) ==
    IF FLt(FZero, price) \/ FLt(price, FZero)
    THEN FMul(FDiv(profit, price), F(100))
    ELSE FZero

\* (profit / price * 100) if price > 0 else 0
Margin(profit, price) ==
    IF FLt(FZero, price) THEN FMul(FDiv(profit, price), F(100)) ELSE FZero

\* (cogs + proposed_opex) / (1 - target_margin / 100)
MinPriceNeeded(unit_cost, opex, target) ==
    FDiv(FAdd(unit_cost, opex), FSub(F(1), FDiv(F(target), F(100))))

\* MarginStatus with a gap of exactly zero counted as below target
MarginStatus_Inclusive(gap) ==
    IF FLe(gap, FZero) THEN "Below Target"
    ELSE IF FLt(gap, F(HealthyGap)) THEN "At Minimum"
    ELSE "Healthy Margin"

\* the if / elif / else on margin_gap
MarginStatus(gap) ==
    IF FLt(gap, FZero) THEN "Below Target"
    ELSE IF FLt(gap, F(HealthyGap)) THEN "At Minimum"
    ELSE "Healthy Margin"

\* the recommendation text of each status; the below-target one names the
\* rounded minimum price
Recommendation(status, needed) ==
    IF status = "Below Target"
    THEN [text |-> "Increase price to at least", price |-> round50(needed)]
    ELSE IF status = "At Minimum"
    THEN [text |-> "Price works but leaves little room for unexpected costs",
          price |-> Undefined]
    ELSE [text |-> "Price is within target range", price |-> Undefined]

\* the branch of the final recommendation block: st.error, st.warning or
\* st.success
RecommendationBranch(margin, target) ==
    IF FLt(margin, F(target)) THEN "error"
    ELSE IF FLt(margin, F(target + Cushion)) THEN "warning"
    ELSE "success"

(***************************************************************************)
(* The run.                                                                *)
(***************************************************************************)

\* The state when the sidebar widgets and the sheet row have been read.
\* The number input's value is bound to proposed_price; entered_price keeps
\* it for the record (the script rebinds proposed_price).
Init ==
    /\ pc = "calc_price"
    /\ error = "none"
    /\ markup \in MarkupChoices
    /\ entered_price \in EnteredPriceChoices
    /\ volume \in VolumeChoices
    /\ opex_adjustment \in OpexAdjustmentChoices
    /\ target_margin \in TargetMarginChoices
    /\ current_price \in CurrentPriceChoices
    /\ cogs \in CogsChoices
    /\ opex_column \in OpexColumnChoices
    /\ opex_rate = OpexRate(opex_column)
    /\ proposed_price = entered_price
    /\ current_opex = Undefined /\ current_profit = Undefined
    /\ current_margin = Undefined
    /\ proposed_opex = Undefined /\ proposed_profit = Undefined
    /\ proposed_margin = Undefined
    /\ total_revenue = Undefined /\ total_profit = Undefined
    /\ min_price_needed = Undefined /\ margin_gap = Undefined
    /\ warning = Undefined /\ margin_status = Undefined
    /\ recommendation = Undefined
    /\ metrics = Undefined
    /\ comparison = Undefined

\* CALCULATE PROPOSED PRICE.  round() of a NaN raises ValueError: that is
\* the run on an empty COGS cell with no price entered.
CalculateProposedPrice ==
    /\ pc = "calc_price"
    /\ error = "none"
    /\ IF IsNaN(PriceBeforeRounding(proposed_price, cogs, markup))
       THEN /\ error' = "ValueError"
            /\ UNCHANGED <<pc, proposed_price>>
       ELSE /\ proposed_price' = DerivePrice(proposed_price, cogs, markup)
            /\ pc' = "per_test"
            /\ UNCHANGED error
    /\ UNCHANGED <<inputs, perTest, check, metrics, comparison>>

\* PER TEST CALCULATIONS, and the totals for the volume
PerTestCalculations ==
    /\ pc = "per_test"
    /\ error = "none"
    /\ current_opex' = CurrentOpex(opex_rate, current_price)
    /\ current_profit' = Profit(current_price, cogs, current_opex')
    /\ current_margin' = Margin(current_profit', current_price)
    /\ proposed_opex' = ProposedOpex(opex_rate, F(proposed_price), opex_adjustment)
    /\ proposed_profit' = Profit(F(proposed_price), cogs, proposed_opex')
    /\ proposed_margin' = Margin(proposed_profit', F(proposed_price))
    /\ total_revenue' = proposed_price * volume
    /\ total_profit' = FMul(proposed_profit', F(volume))
    /\ pc' = "check_margin"
    /\ UNCHANGED <<error, inputs, proposed_price, check, metrics, comparison>>

\* CHECK MINIMUM MARGIN: the price is compared with the price the target
\* margin needs; below it, a warning is shown.  proposed_price is not
\* assigned here.
CheckMinimumMargin ==
    /\ pc = "check_margin"
    /\ error = "none"
    /\ min_price_needed' = MinPriceNeeded(cogs, proposed_opex, target_margin)
    /\ margin_gap' = FSub(F(proposed_price), min_price_needed')
    /\ margin_status' = MarginStatus(margin_gap')
    /\ recommendation' = Recommendation(margin_status', min_price_needed')
    /\ warning' = IF margin_status' = "Below Target"
                  THEN [shown |-> TRUE, need |-> round50(min_price_needed'),
                        margin |-> target_margin]
                  ELSE [shown |-> FALSE]
    /\ pc' = "key_metrics"
    /\ UNCHANGED <<error, inputs, proposed_price, perTest, metrics, comparison>>

\* DISPLAY: KEY METRICS.  The first metric divides by current_price.
KeyMetrics ==
    /\ pc = "key_metrics"
    /\ error = "none"
    /\ IF FEq(current_price, FZero)
       THEN /\ error' = "ZeroDivisionError"
            /\ UNCHANGED <<pc, metrics>>
       ELSE /\ metrics' =
                  [price |-> proposed_price,
                   price_delta_pct |->
                       FMul(FDiv(FSub(F(proposed_price), current_price),
                                 current_price), F(100)),
                   net_margin |-> proposed_margin,
                   net_margin_delta |-> FSub(proposed_margin, current_margin),
                   total_revenue |-> total_revenue,
                   tests |-> volume,
                   total_profit |-> total_profit,
                   status |-> margin_status]
            /\ pc' = "comparison"
            /\ UNCHANGED error
    /\ UNCHANGED <<inputs, proposed_price, perTest, check, comparison>>

\* round(x, 1) of the margin difference.  With an "OPEX %" column the OPEX
\* rate is a numpy float, and so is every margin computed from a price
\* > 0; round() of a numpy float is numpy's.
RoundMarginDifference(x) ==
    IF /\ opex_column # <<>>
       /\ FLt(FZero, current_price) \/ proposed_price > 0
    THEN NpRound1(x)
    ELSE PyRound1(x)

\* the comparison DataFrame: six rows (price, COGS, gross profit, OPEX,
\* EBITDA, net margin) in three columns
ComparisonFrame ==
    LET current_gross_profit  == FSub(current_price, cogs)
        proposed_gross_profit == FSub(F(proposed_price), cogs)
    IN  [Current |->
            <<round50(current_price),
              round50(cogs),
              round50(current_gross_profit),
              round50(current_opex),
              round50(current_profit),
              current_margin>>,
         Proposed |->
            <<round50(F(proposed_price)),
              round50(cogs),
              round50(proposed_gross_profit),
              round50(proposed_opex),
              round50(proposed_profit),
              proposed_margin>>,
         Difference |->
            <<round50(FSub(F(proposed_price), current_price)),
              0,
              round50(FSub(proposed_gross_profit, current_gross_profit)),
              round50(FSub(proposed_opex, current_opex)),
              round50(FSub(proposed_profit, current_profit)),
              RoundMarginDifference(FSub(proposed_margin, current_margin))>>]

\* DISPLAY: COMPARISON TABLE.  The first column rounds the current price
\* and the COGS: round() of a NaN raises ValueError.
ComparisonTable ==
    /\ pc = "comparison"
    /\ error = "none"
    /\ IF IsNaN(current_price) \/ IsNaN(cogs)
       THEN /\ error' = "ValueError"
            /\ UNCHANGED <<pc, comparison>>
       ELSE /\ comparison' = ComparisonFrame
            /\ pc' = "summary"
            /\ UNCHANGED error
    /\ UNCHANGED <<inputs, proposed_price, perTest, check, metrics>>

\* TOTAL VOLUME SUMMARY: the first f-string reads proposed_price_per_unit,
\* a name the script never binds, so the block raises NameError on every run
\* that reaches it.  The recommendation block and the footer below it are
\* never executed.
TotalVolumeSummary ==
    /\ pc = "summary"
    /\ error = "none"
    /\ error' = "NameError"
    /\ UNCHANGED <<pc, inputs, proposed_price, perTest, check, metrics, comparison>>

Next ==
    \/ CalculateProposedPrice
    \/ PerTestCalculations
    \/ CheckMinimumMargin
    \/ KeyMetrics
    \/ ComparisonTable
    \/ TotalVolumeSummary

Spec == Init /\ [][Next]_vars

(***************************************************************************)
(* How far the run has got.  pc stays at the block an exception stopped.   *)
(***************************************************************************)
PriceDerived == pc # "calc_price"
PerTestDone == pc \notin {"calc_price", "per_test"}
MarginChecked == pc \notin {"calc_price", "per_test", "check_margin"}
MetricsShown == pc \in {"comparison", "summary"}
TableBuilt == pc = "summary"

\* the price before rounding: the entered price, or cost times markup
RawPrice == PriceBeforeRounding(entered_price, cogs, markup)

\* the proposed price is below the price the target margin needs, as the
\* script computes that price
BelowMinimum == FLt(F(proposed_price), min_price_needed)

(***************************************************************************)
(* C1                                                                      *)
(***************************************************************************)

\* C1 as stated: once the margin check has run, a price below the minimum
\* required price has been replaced by the rounded minimum required price,
\* and a price at or above it is the derived price.
C1_FloorReplacesPrice ==
    MarginChecked =>
        IF BelowMinimum
        THEN proposed_price = round50(min_price_needed)
        ELSE proposed_price = round50(RawPrice)

\* C1 amended: the margin check never changes the price.  A price below the
\* minimum required price the script computed stays the derived price; the
\* run is flagged "Below Target" and the warning and the recommendation
\* name the rounded minimum required price.  A price not below it is not
\* flagged.  The proposed profit, margin and totals are those of the
\* unchanged price.
C1_FloorFlagsPrice ==
    MarginChecked =>
        /\ proposed_price = round50(RawPrice)
        /\ proposed_profit = FSub(FSub(F(proposed_price), cogs), proposed_opex)
        /\ total_revenue = proposed_price * volume
        /\ total_profit = FMul(proposed_profit, F(volume))
        /\ proposed_price > 0 =>
               proposed_margin =
                   FMul(FDiv(proposed_profit, F(proposed_price)), F(100))
        /\ MetricsShown => metrics.price = proposed_price
        /\ BelowMinimum =>
               /\ margin_status = "Below Target"
               /\ warning.shown
               /\ warning.need = round50(min_price_needed)
               /\ recommendation.text = "Increase price to at least"
               /\ recommendation.price = round50(min_price_needed)
        /\ ~BelowMinimum =>
               /\ margin_status \in {"At Minimum", "Healthy Margin"}
               /\ ~warning.shown
               /\ recommendation.text # "Increase price to at least"

\* a run whose price is below the minimum and differs from the rounded
\* minimum, after the check and the metrics display
C1_Witness ==
    /\ MetricsShown
    /\ BelowMinimum
    /\ margin_status = "Below Target"
    /\ proposed_price # round50(min_price_needed)

(***************************************************************************)
(* C2                                                                      *)
(***************************************************************************)

\* the net margin of the proposed scenario recomputed at a price, by the
\* script's own formulas
MarginAt(price) ==
    LET opex == ProposedOpex(opex_rate, F(price), opex_adjustment)
    IN  Margin(Profit(F(price), cogs, opex), F(price))

\* C2: whenever the price is flagged as below the minimum, the proposed
\* scenario recomputed at the recommended price round50(min_price_needed)
\* has a net margin of at least the target margin.
C2_RecommendedPriceMeetsTarget ==
    (MarginChecked /\ BelowMinimum) =>
        FLe(F(target_margin), MarginAt(round50(min_price_needed)))

(***************************************************************************)
(* C3                                                                      *)
(***************************************************************************)

\* C3: the proposed price equals the entered price exactly when that is
\* > 0, else unit cost times markup exactly.
C3_PriceIsExactDerivation ==
    PriceDerived => FEq(F(proposed_price), RawPrice)

(***************************************************************************)
(* C4                                                                      *)
(***************************************************************************)

InvalidInputs ==
    \/ volume < 1
    \/ FLt(cogs, FZero)
    \/ FLt(current_price, FZero)
    \/ target_margin >= 100

\* C4: a run on invalid inputs (volume < 1, negative cost or price, target
\* margin >= 100) is rejected: it never gets to display the key metrics of
\* a scenario.
C4_InvalidInputRejected ==
    InvalidInputs => ~MetricsShown

(***************************************************************************)
(* C5                                                                      *)
(***************************************************************************)

\* volume >= 1, cost and current price numbers >= 0, target margin < 100
ValidInputs ==
    /\ volume >= 1
    /\ FLe(FZero, cogs)
    /\ FLe(FZero, current_price)
    /\ target_margin < 100

\* C5: a run on valid inputs raises no error.
C5_ValidRunRaisesNothing ==
    ValidInputs => error = "none"

(***************************************************************************)
(* C6                                                                      *)
(***************************************************************************)

\* the margin figure of a scenario: (profit / price) * 100
MarginQuotient(profit, price) == FMul(FDiv(profit, price), F(100))

\* C6 as stated, for prices that are numbers: in the current and in the
\* proposed scenario, the margin is exactly 0 when the scenario's price is
\* 0, and otherwise (the price is below or above 0) it is
\* profit / price * 100.
C6_ZeroRevenueGuard ==
    PerTestDone =>
        /\ FEq(current_price, FZero) => current_margin = FZero
        /\ FLt(current_price, FZero) \/ FLt(FZero, current_price) =>
               current_margin = MarginQuotient(current_profit, current_price)
        /\ proposed_price = 0 => proposed_margin = FZero
        /\ proposed_price # 0 =>
               proposed_margin =
                   MarginQuotient(proposed_profit, F(proposed_price))

\* C6 amended: in the current and in the proposed scenario, the margin is
\* profit / price * 100 when the scenario's price is > 0, and exactly 0 in
\* every other case: a price of 0, a negative price, a missing price (NaN).
\* The profit is price - cogs - opex of that scenario.
C6_PositivePriceGuard ==
    PerTestDone =>
        /\ current_profit = FSub(FSub(current_price, cogs), current_opex)
        /\ proposed_profit = FSub(FSub(F(proposed_price), cogs), proposed_opex)
        /\ current_margin =
               IF FLt(FZero, current_price)
               THEN MarginQuotient(current_profit, current_price)
               ELSE FZero
        /\ proposed_margin =
               IF proposed_price > 0
               THEN MarginQuotient(proposed_profit, F(proposed_price))
               ELSE FZero

\* both prices are negative and both margins are 0, while the quotients
\* profit / price * 100 are not
C6_Witness ==
    /\ PerTestDone
    /\ FLt(current_price, FZero) /\ proposed_price < 0
    /\ current_margin = FZero /\ proposed_margin = FZero
    /\ ~FEq(MarginQuotient(current_profit, current_price), FZero)
    /\ ~FEq(MarginQuotient(proposed_profit, F(proposed_price)), FZero)

(***************************************************************************)
(* C7                                                                      *)
(***************************************************************************)

\* opex_rate * base * (1 + opex_adjustment / 100), as the script's floats
\* compute it
AdjustedOpexOn(base) ==
    FMul(FMul(opex_rate, base), FAdd(F(1), FDiv(F(opex_adjustment), F(100))))

\* C7 as stated: the proposed scenario's OPEX is built on
\* opex_rate * current_price, whatever the proposed price is.
C7_ProposedOpexAnchoredToCurrent ==
    PerTestDone => proposed_opex = AdjustedOpexOn(current_price)

\* C7 amended: the proposed scenario's OPEX is built on the proposed price:
\* opex_rate * proposed_price * (1 + opex_adjustment / 100).
C7_ProposedOpexFollowsProposed ==
    PerTestDone => proposed_opex = AdjustedOpexOn(F(proposed_price))

\* the proposed price differs from the current one, with an OPEX rate and
\* an adjustment in force
C7_Witness ==
    /\ PerTestDone
    /\ FLt(FZero, current_price)
    /\ proposed_price > 0
    /\ ~FEq(F(proposed_price), current_price)
    /\ FLt(FZero, opex_rate)
    /\ opex_adjustment # 0
    /\ ~FEq(proposed_opex, current_opex)
    /\ ~FEq(proposed_opex, AdjustedOpexOn(current_price))

(***************************************************************************)
(* C8                                                                      *)
(***************************************************************************)

\* every <<value, rounded value>> the run has produced so far with round50:
\* the derived price, the price named by the warning, the comparison table
RoundedFigures ==
    (IF PriceDerived THEN {<<RawPrice, proposed_price>>} ELSE {})
    \cup
    (IF MarginChecked /\ margin_status = "Below Target"
     THEN {<<min_price_needed, warning.need>>,
           <<min_price_needed, recommendation.price>>}
     ELSE {})
    \cup
    (IF TableBuilt
     THEN LET cgp == FSub(current_price, cogs)
              pgp == FSub(F(proposed_price), cogs)
          IN  { <<current_price, comparison.Current[1]>>,
                <<cogs, comparison.Current[2]>>,
                <<cgp, comparison.Current[3]>>,
                <<current_opex, comparison.Current[4]>>,
                <<current_profit, comparison.Current[5]>>,
                <<F(proposed_price), comparison.Proposed[1]>>,
                <<cogs, comparison.Proposed[2]>>,
                <<pgp, comparison.Proposed[3]>>,
                <<proposed_opex, comparison.Proposed[4]>>,
                <<proposed_profit, comparison.Proposed[5]>>,
                <<FSub(F(proposed_price), current_price), comparison.Difference[1]>>,
                <<FSub(pgp, cgp), comparison.Difference[3]>>,
                <<FSub(proposed_opex, current_opex), comparison.Difference[4]>>,
                <<FSub(proposed_profit, current_profit), comparison.Difference[5]>> }
     ELSE {})

\* C8 as stated: every rounded figure r of a value x has x <= r < x + 100.
C8_RoundsUpWithinHundred ==
    \A f \in RoundedFigures :
        FLe(f[1], F(f[2])) /\ FLt(F(f[2] - 100), f[1])

\* C8 amended: every rounded figure r of a value x the script computed is
\* a multiple of 50 with r - 25 <= x <= r + 25: values are rounded to a
\* nearest multiple of 50, up or down.
C8_RoundsToNearestFifty ==
    \A f \in RoundedFigures :
        /\ f[2] % RoundingIncrement = 0
        /\ FLe(F(f[2] - 25), f[1])
        /\ FLe(f[1], F(f[2] + 25))

\* a table that holds a figure rounded down and a figure rounded up
C8_Witness ==
    /\ TableBuilt
    /\ \E f \in RoundedFigures : FLt(F(f[2]), f[1])
    /\ \E f \in RoundedFigures : FLt(f[1], F(f[2]))

(***************************************************************************)
(* C9                                                                      *)
(***************************************************************************)

\* C9: in the comparison table, the Difference of each currency row (price,
\* COGS, gross profit, OPEX, EBITDA) is the row's Proposed figure minus its
\* Current figure.
C9_DifferenceOfReported ==
    TableBuilt =>
        \A i \in 1..5 :
            comparison.Difference[i] = comparison.Proposed[i] - comparison.Current[i]

(***************************************************************************)
(* C10                                                                     *)
(***************************************************************************)

\* C10: the status is "Below Target" exactly when the condition of the
\* final recommendation block's error branch, proposed_margin <
\* target_margin, holds.
C10_VerdictsAgree ==
    MarginChecked =>
        (margin_status = "Below Target"
            <=> RecommendationBranch(proposed_margin, target_margin) = "error")

=============================================================================
